---- MODULE Spec2Model ----
(***************************************************************************)
(* A model of the hab client binding (lib/Hab.js): the marshalling of an   *)
(* exec call's arguments into an argument vector and execution options,    *)
(* the three execution strategies and their completion handlers, the       *)
(* spawned handle's lazy output capture, the cached version query and the  *)
(* convenience subcommand methods.                                         *)
(***************************************************************************)
EXTENDS Integers, Sequences, FiniteSets

VARIABLES
    heap,           \* the caller's option-map objects, by identity
    pc,             \* where the current exec call stands
    args,           \* the argument list the current exec call was given
    commandArgs,    \* exec's commandArgs once the scan is over
    execOptions,    \* exec's execOptions once the scan is over
    launch,         \* the child_process call exec made
    child,          \* what the launched child handed to the completion handler
    result,         \* the state of the promise exec returned
    first,          \* per option map m: what its first exec(m) did, and whether
                    \* exec(m) was called again
    method,         \* the convenience method the current call came through
    process,        \* the spawned child, its streams and their listeners
    capture,        \* captureOutput's closure: capturePromise and output
    version,        \* this.version
    build,          \* this.build
    getv,           \* the version calls in progress, by caller
    queries         \* how many times the binary was asked for its version

execVars == <<heap, pc, args, commandArgs, execOptions, launch, child, result, first, method>>
spawnVars == <<process, capture>>
versionVars == <<version, build, getv, queries>>

(***************************************************************************)
(* JavaScript values, tagged by type.                                      *)
(***************************************************************************)
Undefined == [t |-> "undef"]
Null == [t |-> "null"]
True == [t |-> "bool", b |-> TRUE]
False == [t |-> "bool", b |-> FALSE]
Bool(x) == [t |-> "bool", b |-> x]
Str(x) == [t |-> "str", s |-> x]
Num(x) == [t |-> "num", n |-> x]
Obj(f) == [t |-> "obj", o |-> f]
Ref(i) == [t |-> "ref", id |-> i]

\* JavaScript truthiness: what `while (arg = ...)`, `if (x)` and Boolean(x) test.
Truthy(v) ==
    CASE v.t = "bool" -> v.b
      [] v.t = "str" -> v.s # ""
      [] v.t = "num" -> v.n # 0
      [] v.t = "obj" -> TRUE
      [] v.t = "ref" -> TRUE
      [] OTHER -> FALSE

Digits == <<"0", "1", "2", "3", "4", "5", "6", "7", "8", "9">>

\* Number.prototype.toString of an integer.
RECURSIVE NatToString(_)
NatToString(n) ==
    IF n < 10 THEN Digits[n + 1]
    ELSE NatToString(n \div 10) \o Digits[(n % 10) + 1]

NumToString(n) == IF n < 0 THEN "-" \o NatToString(0 - n) ELSE NatToString(n)

\* String(v), as Array.prototype.join and template literals apply it.
ToString(v) ==
    CASE v.t = "str" -> v.s
      [] v.t = "num" -> NumToString(v.n)
      [] v.t = "bool" -> IF v.b THEN "true" ELSE "false"
      [] v.t = "obj" -> "[object Object]"
      [] v.t = "ref" -> "[object Object]"
      [] OTHER -> ""

\* arr.join(' ')
RECURSIVE Join(_)
Join(arr) ==
    IF arr = <<>> THEN ""
    ELSE IF Len(arr) = 1 THEN ToString(arr[1])
    ELSE ToString(arr[1]) \o " " \o Join(Tail(arr))

(***************************************************************************)
(* Objects.  An option map is the sequence of its own properties in        *)
(* insertion order (the order for..in visits them); execOptions, $env and  *)
(* $options are functions from property names to values.                   *)
(***************************************************************************)
Prop(k, v) == [k |-> k, v |-> v]
Has(m, k) == \E i \in 1..Len(m) : m[i].k = k
Get(m, k) == m[CHOOSE i \in 1..Len(m) : m[i].k = k].v
Delete(m, k) == SelectSeq(m, LAMBDA p : p.k # k)
Keys(m) == {m[i].k : i \in 1..Len(m)}

Put(f, k, v) == [x \in (DOMAIN f) \cup {k} |-> IF x = k THEN v ELSE f[x]]
Merge(f, g) == [x \in (DOMAIN f) \cup (DOMAIN g) |-> IF x \in DOMAIN g THEN g[x] ELSE f[x]]
Opt(f, k) == IF k \in DOMAIN f THEN f[k] ELSE Undefined
Empty == [x \in {} |-> Undefined]
One(k, v) == [x \in {k} |-> v]

DirectiveKeys ==
    {"$nullOnError", "$spawn", "$shell", "$env", "$preserveEnv", "$options",
     "$passthrough", "$wait"}

(***************************************************************************)
(* exec: the scan of the arguments.                                        *)
(***************************************************************************)
MaxBuffer == 1048576

InitScan(h) ==
    [command |-> Undefined,
     commandArgs |-> <<>>,
     commandEnv |-> Empty,
     execOptions |-> One("maxBuffer", Num(MaxBuffer)),
     heap |-> h,
     thrown |-> FALSE]

\* if ('$k' in arg) { execOptions.k = arg.$k; delete arg.$k; }
ExtractPlain(st, id, key, field) ==
    IF Has(st.heap[id], key)
    THEN [st EXCEPT !.execOptions = Put(@, field, Get(st.heap[id], key)),
                    !.heap[id] = Delete(@, key)]
    ELSE st

ExtractNullOnError(st, id) == ExtractPlain(st, id, "$nullOnError", "nullOnError")

ExtractSpawn(st, id) == ExtractPlain(st, id, "$spawn", "spawn")

ExtractShell(st, id) == ExtractPlain(st, id, "$shell", "shell")

ExtractEnv(st, id) ==
    IF Has(st.heap[id], "$env")
    THEN [st EXCEPT !.commandEnv = Merge(@, Get(st.heap[id], "$env").o),
                    !.heap[id] = Delete(@, "$env")]
    ELSE st

ExtractPreserveEnv(st, id) == ExtractPlain(st, id, "$preserveEnv", "preserveEnv")

\* The only directive the scan leaves in the map.
ExtractOptions(st, id) ==
    IF Has(st.heap[id], "$options")
    THEN [st EXCEPT !.execOptions = Merge(@, Get(st.heap[id], "$options").o)]
    ELSE st

\* A $passthrough extraction that forgets the delete.
ExtractPassthroughKept(st, id) ==
    IF Has(st.heap[id], "$passthrough")
    THEN LET on == Truthy(Get(st.heap[id], "$passthrough"))
             eo == Put(st.execOptions, "passthrough", Bool(on))
         IN  [st EXCEPT !.execOptions = IF on THEN Put(eo, "spawn", True) ELSE eo]
    ELSE st

ExtractPassthrough(st, id) ==
    IF Has(st.heap[id], "$passthrough")
    THEN LET on == Truthy(Get(st.heap[id], "$passthrough"))
             eo == Put(st.execOptions, "passthrough", Bool(on))
         IN  [st EXCEPT !.execOptions = IF on THEN Put(eo, "spawn", True) ELSE eo,
                        !.heap[id] = Delete(@, "$passthrough")]
    ELSE st

ExtractWait(st, id) ==
    IF Has(st.heap[id], "$wait")
    THEN [st EXCEPT !.execOptions =
                        Put(@, "wait", Bool(Truthy(Get(st.heap[id], "$wait")))),
                    !.heap[id] = Delete(@, "$wait")]
    ELSE st

\* One remaining property as a flag.
Flag(p) ==
    LET dash == IF Len(p.k) = 1 THEN "-" ELSE "--" IN
    IF p.v = True THEN <<Str(dash \o p.k)>>
    ELSE IF p.v # False THEN <<Str(dash \o p.k), p.v>>
    ELSE <<>>

RECURSIVE Flags(_)
Flags(m) == IF m = <<>> THEN <<>> ELSE Flag(Head(m)) \o Flags(Tail(m))

EmitFlags(st, id) == [st EXCEPT !.commandArgs = @ \o Flags(st.heap[id])]

\* case 'object' of the scan.
ScanObject(st, id) ==
    EmitFlags(
        ExtractWait(
            ExtractPassthrough(
                ExtractOptions(
                    ExtractPreserveEnv(
                        ExtractEnv(
                            ExtractShell(
                                ExtractSpawn(
                                    ExtractNullOnError(st, id), id), id), id), id), id), id), id), id)

\* The loop's test: while (arg = args.shift()).
Continues(rest) == rest # <<>> /\ Truthy(Head(rest))

RECURSIVE ScanArgs(_, _)
ScanArgs(rest, st) ==
    IF ~Continues(rest) THEN st
    ELSE LET arg == Head(rest) IN
         CASE arg.t = "str" ->
                IF ~Truthy(st.command)
                THEN ScanArgs(Tail(rest), [st EXCEPT !.command = arg])
                ELSE ScanArgs(Tail(rest),
                              [st EXCEPT !.commandArgs = Append(@, Str(ToString(arg)))])
           [] arg.t = "num" ->
                ScanArgs(Tail(rest),
                         [st EXCEPT !.commandArgs = Append(@, Str(ToString(arg)))])
           [] arg.t = "ref" -> ScanArgs(Tail(rest), ScanObject(st, arg.id))
           [] OTHER -> [st EXCEPT !.thrown = TRUE]

\* if (command) commandArgs.unshift(command)
PrefixCommand(st) ==
    IF Truthy(st.command)
    THEN [st EXCEPT !.commandArgs = <<st.command>> \o @]
    ELSE st

\* The environment handed to the child: the overlay and whether it falls
\* back to process.env.
PrepareEnv(st) ==
    [st EXCEPT !.execOptions =
        Put(@, "env",
            [t |-> "env",
             overlay |-> st.commandEnv,
             inherits |-> Opt(st.execOptions, "preserveEnv") # False])]

\* exec up to its launch; a throw in the scan leaves the rest undone.
Marshal(a, h) ==
    LET st == ScanArgs(a, InitScan(h)) IN
    IF st.thrown THEN st ELSE PrepareEnv(PrefixCommand(st))

\* The branch exec takes once the arguments are marshalled.
Strategy(eo) ==
    IF Truthy(Opt(eo, "spawn")) THEN "spawn"
    ELSE IF Truthy(Opt(eo, "shell")) THEN "shell"
    ELSE "direct"

HabCommand == "hab"

Launch(st) ==
    LET s == Strategy(st.execOptions) IN
    CASE s = "spawn" ->
            [kind |-> "spawn", file |-> HabCommand, argv |-> st.commandArgs,
             line |-> "", options |-> st.execOptions]
      [] s = "shell" ->
            [kind |-> "exec", file |-> "", argv |-> <<>>,
             line |-> HabCommand \o " " \o Join(st.commandArgs),
             options |-> st.execOptions]
      [] OTHER ->
            [kind |-> "execFile", file |-> HabCommand, argv |-> st.commandArgs,
             line |-> "", options |-> st.execOptions]

NoLaunch == [kind |-> "none", file |-> "", argv |-> <<>>, line |-> "", options |-> Empty]

(***************************************************************************)
(* The completion handlers of the two execute-and-capture strategies.      *)
(***************************************************************************)
Whitespace == {" ", "\n", "\t"}

RECURSIVE TrimStart(_)
TrimStart(cs) ==
    IF cs # <<>> /\ Head(cs) \in Whitespace THEN TrimStart(Tail(cs)) ELSE cs

RECURSIVE TrimEnd(_)
TrimEnd(cs) ==
    IF cs # <<>> /\ cs[Len(cs)] \in Whitespace
    THEN TrimEnd(SubSeq(cs, 1, Len(cs) - 1))
    ELSE cs

\* String.prototype.trim, on a text held as its sequence of characters.
Trim(cs) == TrimEnd(TrimStart(cs))

Text(cs) == [t |-> "text", c |-> cs]
Error(code) == [t |-> "error", code |-> code, stderr |-> Undefined]

Pending == [state |-> "pending", value |-> Undefined]
Resolved(v) == [state |-> "resolved", value |-> v]
Rejected(v) == [state |-> "rejected", value |-> v]
NoResult == [state |-> "none", value |-> Undefined]

\* child_process.exec's callback (the shell strategy).
ExecCallback(eo, error, stdout, stderr) ==
    IF error # Null
    THEN IF Truthy(Opt(eo, "nullOnError"))
         THEN Resolved(Null)
         ELSE Rejected([error EXCEPT !.stderr = Text(stderr)])
    ELSE Resolved(Text(Trim(stdout)))

\* A direct-strategy callback that rejects whatever nullOnError says and
\* resolves with the untrimmed output.
ExecFileCallbackLoose(eo, error, stdout, stderr) ==
    IF error # Null
    THEN Rejected([error EXCEPT !.stderr = Text(stderr)])
    ELSE Resolved(Text(stdout))

\* child_process.execFile's callback (the direct strategy).
ExecFileCallback(eo, error, stdout, stderr) ==
    IF error # Null
    THEN IF Truthy(Opt(eo, "nullOnError"))
         THEN Resolved(Null)
         ELSE Rejected([error EXCEPT !.stderr = Text(stderr)])
    ELSE Resolved(Text(Trim(stdout)))

\* process.on('exit', ...) of the wait directive.
WaitExitHandler(code) ==
    IF code = 0 THEN Resolved(Undefined) ELSE Rejected(Num(code))

(***************************************************************************)
(* The inputs: the callers' option maps, the argument lists, and what a    *)
(* child can produce.                                                      *)
(***************************************************************************)
MaxArgs == 2
MaxOut == 2

MapIds == {"m1", "m2"}

EnvOverlay == One("HAB_ORIGIN", Str("acme"))

SampleMaps ==
    { <<>>,
      <<Prop("$passthrough", True)>>,
      <<Prop("$spawn", False)>>,
      <<Prop("$nullOnError", True), Prop("$shell", True)>>,
      <<Prop("$nullOnError", True), Prop("f", Str("v"))>>,
      <<Prop("$spawn", True), Prop("$wait", True)>>,
      <<Prop("$env", Obj(EnvOverlay)), Prop("$preserveEnv", False),
        Prop("force", True), Prop("q", False)>>,
      <<Prop("$options", Obj(One("spawn", True)))>>,
      <<Prop("$options", Obj(One("spawn", False)))>>,
      <<Prop("$options", Obj(One("maxBuffer", Num(1)))), Prop("$shell", True)>>,
      <<Prop("$passthrough", False), Prop("$nullOnError", False)>>,
      <<Prop("$nullOnError", True), Prop("$spawn", True), Prop("$shell", True),
        Prop("$env", Obj(EnvOverlay)), Prop("$preserveEnv", True),
        Prop("$options", Obj(One("cwd", Str("/hab")))),
        Prop("$passthrough", True), Prop("$wait", False), Prop("origin", Str("core"))>> }

ArgValues ==
    {Str("pkg"), Str(""), Num(0), Num(7), True} \cup {Ref(i) : i \in MapIds}

ArgLists == UNION {[1..n -> ArgValues] : n \in 0..MaxArgs}

OutChars == {"\n", "a"}
Outputs == UNION {[1..n -> OutChars] : n \in 0..MaxOut}
ErrTexts == {<<>>, <<"e">>}
ExitCodes == {0, 1}

\* What a child can do: exit 0 with some output, exit non-zero with some
\* standard error (and partial output), or fail to launch.
ChildOutcomes ==
    {[launched |-> TRUE, code |-> 0, stdout |-> o, stderr |-> <<>>] : o \in Outputs}
    \cup {[launched |-> TRUE, code |-> 1, stdout |-> <<>>, stderr |-> e] : e \in ErrTexts}
    \cup {[launched |-> TRUE, code |-> 1, stdout |-> <<"a">>, stderr |-> <<"e">>],
          [launched |-> FALSE, code |-> 1, stdout |-> <<>>, stderr |-> <<>>]}

NoChild == [error |-> Null, stdout |-> <<>>, stderr |-> <<>>]

\* The error child_process hands to the callback: a failed launch, an output
\* over options.maxBuffer, a non-zero exit; null otherwise.
ChildError(eo, launched, code, stdout) ==
    IF ~launched THEN Error("ENOENT")
    ELSE IF Len(stdout) > Opt(eo, "maxBuffer").n THEN Error("ERR_CHILD_PROCESS_STDIO_MAXBUFFER")
    ELSE IF code # 0 THEN Error(NumToString(code))
    ELSE Null

Unset == [set |-> FALSE, again |-> FALSE, argv |-> <<>>, options |-> Empty]

\* exec(m) with m a caller's option map and nothing else.
SoleMap(a) == Len(a) = 1 /\ a[1].t = "ref"

Note(f, a, st) ==
    IF ~SoleMap(a) THEN f
    ELSE IF f[a[1].id].set THEN [f EXCEPT ![a[1].id].again = TRUE]
    ELSE [f EXCEPT ![a[1].id] =
             [set |-> TRUE, again |-> FALSE, argv |-> st.commandArgs,
              options |-> st.execOptions]]

(***************************************************************************)
(* The spawned child: what child_process.spawn returns, with the listeners *)
(* exec attaches before it returns.  Standard output is a stream that      *)
(* emits 'data' only while it flows; it starts to flow with its first      *)
(* 'data' listener.  (The standard-error forwarding of passthrough is left *)
(* out: nothing reads it back.)                                            *)
(***************************************************************************)
MaxChunks == 2
MaxCaptures == 3

NoProcess ==
    [status |-> "none", code |-> 0, pipe |-> <<>>, written |-> <<>>,
     flowing |-> FALSE, dataListeners |-> <<>>, exitListeners |-> <<>>,
     stdin |-> [state |-> "open", writes |-> <<>>, attempts |-> 0],
     logged |-> <<>>]

NoCapture ==
    [promise |-> [id |-> 0, state |-> "none", value |-> Undefined],
     output |-> <<>>, created |-> 0, returned |-> <<>>]

\* child_process.spawn and the passthrough / wait listeners.
Spawn(eo) ==
    LET pass == Truthy(Opt(eo, "passthrough")) IN
    [NoProcess EXCEPT
        !.status = "running",
        !.flowing = pass,
        !.dataListeners = IF pass THEN <<"passthrough">> ELSE <<>>,
        !.exitListeners = IF Truthy(Opt(eo, "wait")) THEN <<"wait">> ELSE <<>>]

(***************************************************************************)
(* exec and its completion, as actions.                                    *)
(***************************************************************************)
Init ==
    /\ heap \in [MapIds -> SampleMaps]
    /\ pc = "idle"
    /\ args = <<>>
    /\ commandArgs = <<>>
    /\ execOptions = Empty
    /\ launch = NoLaunch
    /\ child = NoChild
    /\ result = NoResult
    /\ first = [i \in MapIds |-> Unset]
    /\ method = ""
    /\ process = NoProcess
    /\ capture = NoCapture
    /\ version = Null
    /\ build = Null
    /\ getv = <<>>
    /\ queries = 0

\* exec(...a): the scan, the environment and the launch.
Exec(a) ==
    /\ pc = "idle"
    /\ LET st == Marshal(a, heap) IN
       /\ args' = a
       /\ heap' = st.heap
       /\ commandArgs' = st.commandArgs
       /\ execOptions' = st.execOptions
       /\ child' = NoChild
       /\ capture' = NoCapture
       /\ UNCHANGED versionVars
       /\ process' = IF ~st.thrown /\ Strategy(st.execOptions) = "spawn"
                     THEN Spawn(st.execOptions) ELSE NoProcess
       /\ IF st.thrown
          THEN /\ launch' = NoLaunch
               /\ pc' = "settled"
               /\ result' = Rejected(Str("unhandled exec argument"))
          ELSE /\ launch' = Launch(st)
               /\ IF Strategy(st.execOptions) = "spawn" /\ ~Truthy(Opt(st.execOptions, "wait"))
                  THEN pc' = "handle" /\ result' = Resolved([t |-> "process"])
                  ELSE pc' = "pending" /\ result' = Pending

\* The direct strategy's child completes and execFile calls back.
ExecFileDone(oc) ==
    /\ pc = "pending"
    /\ launch.kind = "execFile"
    /\ LET error == ChildError(execOptions, oc.launched, oc.code, oc.stdout) IN
       /\ child' = [error |-> error, stdout |-> oc.stdout, stderr |-> oc.stderr]
       /\ result' = ExecFileCallback(execOptions, error, oc.stdout, oc.stderr)
    /\ pc' = "settled"
    /\ args' = <<>>
    /\ commandArgs' = <<>>
    /\ launch' = [NoLaunch EXCEPT !.kind = launch.kind]
    /\ UNCHANGED <<heap, execOptions, first, method, spawnVars, versionVars>>

\* The shell strategy's child completes and exec calls back.
ExecDone(oc) ==
    /\ pc = "pending"
    /\ launch.kind = "exec"
    /\ LET error == ChildError(execOptions, oc.launched, oc.code, oc.stdout) IN
       /\ child' = [error |-> error, stdout |-> oc.stdout, stderr |-> oc.stderr]
       /\ result' = ExecCallback(execOptions, error, oc.stdout, oc.stderr)
    /\ pc' = "settled"
    /\ args' = <<>>
    /\ commandArgs' = <<>>
    /\ launch' = [NoLaunch EXCEPT !.kind = launch.kind]
    /\ UNCHANGED <<heap, execOptions, first, method, spawnVars, versionVars>>

\* A spawned child exits under the wait directive.
WaitExit(code) ==
    /\ pc = "pending"
    /\ launch.kind = "spawn"
    /\ result' = WaitExitHandler(code)
    /\ process' = [process EXCEPT !.status = "exited", !.code = code]
    /\ UNCHANGED <<capture, versionVars>>
    /\ child' = [error |-> IF code = 0 THEN Null ELSE Error(NumToString(code)),
                 stdout |-> <<>>, stderr |-> <<>>]
    /\ pc' = "settled"
    /\ args' = <<>>
    /\ commandArgs' = <<>>
    /\ launch' = [NoLaunch EXCEPT !.kind = launch.kind]
    /\ UNCHANGED <<heap, execOptions, first, method>>

\* The caller takes the result; the call's locals are gone.
Release ==
    /\ pc \in {"settled", "handle"}
    /\ pc' = "idle"
    /\ args' = <<>>
    /\ commandArgs' = <<>>
    /\ execOptions' = Empty
    /\ launch' = NoLaunch
    /\ child' = NoChild
    /\ result' = NoResult
    /\ method' = ""
    /\ process' = NoProcess
    /\ capture' = NoCapture
    /\ UNCHANGED <<heap, first, versionVars>>

\* A caller calls exec itself.
Call(a) == Exec(a) /\ method' = "" /\ first' = first

\* The same, with the history of the sole-map calls kept.
TrackedCall(a) == Exec(a) /\ method' = "" /\ first' = Note(first, a, Marshal(a, heap))

Next ==
    \/ \E a \in ArgLists : Call(a)
    \/ \E oc \in ChildOutcomes : ExecFileDone(oc)
    \/ \E oc \in ChildOutcomes : ExecDone(oc)
    \/ \E c \in ExitCodes : WaitExit(c)
    \/ Release

vars == <<execVars, spawnVars, versionVars>>

Spec == Init /\ [][Next]_vars

Completes ==
    \/ \E oc \in ChildOutcomes : ExecFileDone(oc)
    \/ \E oc \in ChildOutcomes : ExecDone(oc)
    \/ \E c \in ExitCodes : WaitExit(c)
    \/ Release

\* Callers that keep their option maps and pass them to exec again.
ReuseArgLists == UNION {[1..n -> {Str("pkg")} \cup {Ref(i) : i \in MapIds}] : n \in 0..MaxArgs}

NextReuse ==
    \/ \E a \in ReuseArgLists : TrackedCall(a)
    \/ Completes

SpecReuse == Init /\ [][NextReuse]_vars

(***************************************************************************)
(* The convenience subcommand methods.  A name is held as its characters,  *)
(* as replace and toLowerCase work on them.                                *)
(***************************************************************************)
Lowers ==
    <<"a", "b", "c", "d", "e", "f", "g", "h", "i", "j", "k", "l", "m",
      "n", "o", "p", "q", "r", "s", "t", "u", "v", "w", "x", "y", "z">>
Uppers ==
    <<"A", "B", "C", "D", "E", "F", "G", "H", "I", "J", "K", "L", "M",
      "N", "O", "P", "Q", "R", "S", "T", "U", "V", "W", "X", "Y", "Z">>

IsLetter(c) == \E i \in 1..Len(Lowers) : c = Lowers[i] \/ c = Uppers[i]

ToUpper(c) ==
    IF \E i \in 1..Len(Lowers) : c = Lowers[i]
    THEN Uppers[CHOOSE i \in 1..Len(Lowers) : c = Lowers[i]]
    ELSE c

ToLower(c) ==
    IF \E i \in 1..Len(Uppers) : c = Uppers[i]
    THEN Lowers[CHOOSE i \in 1..Len(Uppers) : c = Uppers[i]]
    ELSE c

\* String.prototype.toLowerCase
ToLowerCase(cs) == [i \in 1..Len(cs) |-> ToLower(cs[i])]

\* The characters as one string.
RECURSIVE Concat(_)
Concat(cs) == IF cs = <<>> THEN "" ELSE Head(cs) \o Concat(Tail(cs))

Subcommands ==
    << <<"b", "l", "d", "r">>,
       <<"c", "l", "i">>,
       <<"c", "o", "n", "f", "i", "g">>,
       <<"f", "i", "l", "e">>,
       <<"h", "e", "l", "p">>,
       <<"o", "r", "i", "g", "i", "n">>,
       <<"p", "k", "g">>,
       <<"p", "l", "a", "n">>,
       <<"r", "i", "n", "g">>,
       <<"s", "t", "u", "d", "i", "o">>,
       <<"s", "u", "p">>,
       <<"s", "u", "p", "p", "o", "r", "t", "-", "b", "u", "n", "d", "l", "e">>,
       <<"s", "v", "c">>,
       <<"u", "s", "e", "r">> >>

\* command.replace(/-([a-zA-Z])/, (match, letter) => letter.toUpperCase()):
\* the first dash followed by a letter becomes that letter in upper case.
MethodName(cs) ==
    LET hits == {i \in 1..(Len(cs) - 1) : cs[i] = "-" /\ IsLetter(cs[i + 1])} IN
    IF hits = {} THEN cs
    ELSE LET i == CHOOSE x \in hits : \A y \in hits : x <= y IN
         SubSeq(cs, 1, i - 1) \o <<ToUpper(cs[i + 1])>> \o SubSeq(cs, i + 2, Len(cs))

\* command = method.toLowerCase(): what the method prepends.
MethodCommand(cs) == ToLowerCase(MethodName(cs))

\* Hab.prototype[method](...a): args.unshift(command); this.exec(...args).
Subcommand(i, a) ==
    /\ Exec(<<Str(Concat(MethodCommand(Subcommands[i])))>> \o a)
    /\ method' = Concat(MethodName(Subcommands[i]))
    /\ first' = first

MethodArgLists == UNION {[1..n -> ArgValues] : n \in 0..(MaxArgs - 1)}

NextMethods ==
    \/ \E i \in 1..Len(Subcommands), a \in MethodArgLists : Subcommand(i, a)
    \/ Completes

SpecMethods == Init /\ [][NextMethods]_vars

(***************************************************************************)
(* The handle of the spawn strategy: the child's life and captureOutput.   *)
(***************************************************************************)
Chunks == {<<"a">>, <<"b", "\n">>}
Inputs == {Null, Str(""), Str("in")}

\* exec has just returned a handle: exec(m) for the sample maps that spawn.
InitSpawn ==
    \E m \in SampleMaps :
        LET st == Marshal(<<Ref("m1")>>, [i \in MapIds |-> IF i = "m1" THEN m ELSE <<>>]) IN
        /\ Strategy(st.execOptions) = "spawn"
        /\ ~Truthy(Opt(st.execOptions, "wait"))
        /\ heap = st.heap
        /\ pc = "handle"
        /\ args = <<Ref("m1")>>
        /\ commandArgs = st.commandArgs
        /\ execOptions = st.execOptions
        /\ launch = Launch(st)
        /\ child = NoChild
        /\ result = Resolved([t |-> "process"])
        /\ first = [i \in MapIds |-> Unset]
        /\ method = ""
        /\ process = Spawn(st.execOptions)
        /\ capture = NoCapture
        /\ version = Null
        /\ build = Null
        /\ getv = <<>>
        /\ queries = 0

\* data.toString().trim().split(/\n/): the lines of a chunk.
RECURSIVE SplitLines(_, _)
SplitLines(cs, line) ==
    IF cs = <<>> THEN <<line>>
    ELSE IF Head(cs) = "\n" THEN <<line>> \o SplitLines(Tail(cs), <<>>)
    ELSE SplitLines(Tail(cs), Append(line, Head(cs)))

PassthroughLines(chunk) == SplitLines(Trim(chunk), <<>>)

\* The child writes a chunk to its standard output.
ChildWrite(c) ==
    /\ pc = "handle"
    /\ process.status = "running"
    /\ Len(process.written) < MaxChunks
    /\ process' = [process EXCEPT !.pipe = Append(@, c), !.written = Append(@, c)]
    /\ UNCHANGED <<capture, execVars, versionVars>>

\* One 'data' event of the flowing standard output, run through its
\* listeners: passthrough's logger.info and capture's output += data.
DeliverData ==
    /\ pc = "handle"
    /\ process.flowing
    /\ process.pipe # <<>>
    /\ LET chunk == Head(process.pipe)
           has(l) == \E i \in 1..Len(process.dataListeners) : process.dataListeners[i] = l
       IN  /\ process' = [process EXCEPT
                  !.pipe = Tail(@),
                  !.logged = IF has("passthrough") THEN @ \o PassthroughLines(chunk) ELSE @]
           /\ capture' = [capture EXCEPT
                  !.output = IF has("capture") THEN @ \o chunk ELSE @]
    /\ UNCHANGED <<execVars, versionVars>>

\* capture's process.on('exit', code => ...).
CaptureExitHandler(cap, code) ==
    IF cap.promise.state # "pending" THEN cap
    ELSE IF code = 0
    THEN [cap EXCEPT !.promise.state = "resolved", !.promise.value = Text(cap.output)]
    ELSE [cap EXCEPT !.promise.state = "rejected",
                     !.promise.value = [t |-> "failure", output |-> Text(cap.output),
                                        code |-> code]]

\* The child exits: 'exit' is emitted once to the listeners attached by
\* then, standard input is destroyed, and an untouched standard output is
\* resumed so that it drains (into no listener).  Output still in the pipe
\* is delivered after 'exit'.
ChildExit(code) ==
    /\ pc = "handle"
    /\ process.status = "running"
    /\ process' = [process EXCEPT !.status = "exited", !.code = code,
                                  !.flowing = TRUE, !.stdin.state = "destroyed"]
    /\ capture' = IF \E i \in 1..Len(process.exitListeners) : process.exitListeners[i] = "capture"
                  THEN CaptureExitHandler(capture, code)
                  ELSE capture
    /\ UNCHANGED <<execVars, versionVars>>

\* if (input) { process.stdin.write(input); process.stdin.end(); }
WriteInput(proc, input) ==
    IF ~Truthy(input) THEN proc
    ELSE [proc EXCEPT
            !.stdin.attempts = @ + 1,
            !.stdin.writes = IF proc.stdin.state = "open" THEN Append(@, input) ELSE @,
            !.stdin.state = IF proc.stdin.state = "open" THEN "ended" ELSE @]

\* if (!capturePromise) { capturePromise = new Promise(...) }: the listeners
\* are attached when the promise is made.
AttachCapture(proc, cap) ==
    IF cap.promise.state # "none" THEN proc
    ELSE [proc EXCEPT !.dataListeners = Append(@, "capture"),
                      !.exitListeners = Append(@, "capture"),
                      !.flowing = TRUE]

MakeCapturePromise(cap) ==
    IF cap.promise.state # "none" THEN cap
    ELSE [cap EXCEPT !.promise = [id |-> cap.created + 1, state |-> "pending",
                                  value |-> Undefined],
                     !.created = @ + 1,
                     !.output = <<>>]

\* process.captureOutput(input)
CaptureOutput(input) ==
    /\ pc = "handle"
    /\ Len(capture.returned) < MaxCaptures
    /\ process' = WriteInput(AttachCapture(process, capture), input)
    /\ capture' = LET cap == MakeCapturePromise(capture) IN
                  [cap EXCEPT !.returned = Append(@, cap.promise.id)]
    /\ UNCHANGED <<execVars, versionVars>>

NextSpawn ==
    \/ \E c \in Chunks : ChildWrite(c)
    \/ DeliverData
    \/ \E c \in ExitCodes : ChildExit(c)
    \/ \E i \in Inputs : CaptureOutput(i)

SpecSpawn == InitSpawn /\ [][NextSpawn]_vars

(***************************************************************************)
(* The cached version query: getVersion, satisfiesVersion, requireVersion. *)
(* A caller's call runs up to its await of exec, and on from there when    *)
(* exec's promise settles; calls of several callers interleave at awaits.  *)
(***************************************************************************)
MaxCalls == 3

Callers == 1..MaxCalls
Kinds == {"getVersion", "satisfiesVersion", "requireVersion"}

VersionOutputs ==
    { <<"h", "a", "b", " ", "1", ".", "6", "/", "1", "2", "\n">>,
      <<"h", "a", "b", " ", "0", ".", "9", "/", "3", "\n">>,
      <<"h", "a", "b", " ", "1", ".", "6", "\n">>,
      <<"h", "a", "b", " ", "1", ".", "6", "/", "x">> }

VersionOutcomes ==
    {[launched |-> TRUE, code |-> 0, stdout |-> o, stderr |-> <<>>] : o \in VersionOutputs}
    \cup {[launched |-> TRUE, code |-> 1, stdout |-> <<>>, stderr |-> <<"e">>],
          [launched |-> FALSE, code |-> 1, stdout |-> <<>>, stderr |-> <<>>]}

Ranges == {">=1.0"}

NoMatch == [ok |-> FALSE, version |-> <<>>, build |-> <<>>]

IsDigit(c) == \E i \in 1..Len(Digits) : c = Digits[i]

\* /^hab ([^\/]+)\/(\d+)$/.exec(output)
MatchVersion(cs) ==
    IF Len(cs) < 4 \/ SubSeq(cs, 1, 4) # <<"h", "a", "b", " ">> THEN NoMatch
    ELSE LET rest == SubSeq(cs, 5, Len(cs))
             slashes == {i \in 1..Len(rest) : rest[i] = "/"}
         IN  IF slashes = {} THEN NoMatch
             ELSE LET i == CHOOSE x \in slashes : \A y \in slashes : x <= y
                      v == SubSeq(rest, 1, i - 1)
                      b == SubSeq(rest, i + 1, Len(rest))
                  IN  IF v # <<>> /\ b # <<>> /\ \A k \in 1..Len(b) : IsDigit(b[k])
                      THEN [ok |-> TRUE, version |-> v, build |-> b]
                      ELSE NoMatch

\* semver.satisfies(version, range), for the ranges above: null satisfies
\* nothing.
Satisfies(v, range) ==
    /\ v # Null
    /\ range = ">=1.0"
    /\ v.c = <<"1", ".", "6">>

\* this.exec({ version: true }): how getVersion runs the binary.
VersionExec == Marshal(<<Ref("arg")>>, [i \in {"arg"} |-> <<Prop("version", True)>>])

\* return this.version || null
VersionOrNull(v) == IF v.t = "text" /\ v.c # <<>> THEN v ELSE Null

\* The try block after the await: the destructuring assignment of the
\* match, or the catch's this.version = false.
AssignVersion(vb, settled) ==
    LET m == IF settled.state = "resolved" /\ settled.value.t = "text"
             THEN MatchVersion(settled.value.c) ELSE NoMatch
    IN  IF m.ok THEN [version |-> Text(m.version), build |-> Text(m.build)]
        ELSE [version |-> False, build |-> vb.build]

IdleCall == [kind |-> "none", range |-> "", pc |-> "idle", stage |-> "check", ret |-> Undefined]

\* What a caller does with the value getVersion gave it.
Continue(s, v) ==
    CASE s.kind = "getVersion" -> [s EXCEPT !.pc = "done", !.ret = v]
      [] s.kind = "satisfiesVersion" ->
            [s EXCEPT !.pc = "done", !.ret = Bool(Satisfies(v, s.range))]
      [] s.kind = "requireVersion" /\ s.stage = "check" ->
            IF Satisfies(v, s.range)
            THEN [s EXCEPT !.pc = "done", !.ret = [t |-> "this"]]
            ELSE [s EXCEPT !.pc = "message", !.stage = "message"]
      [] OTHER ->
            [s EXCEPT !.pc = "thrown",
                      !.ret = [t |-> "error", range |-> s.range, reported |-> v]]

\* getVersion up to its await: the binary is run only while this.version
\* is null.
EnterGetVersion(c, s) ==
    IF version = Null
    THEN /\ getv' = [getv EXCEPT ![c] = [s EXCEPT !.pc = "awaiting"]]
         /\ queries' = queries + 1
    ELSE /\ getv' = [getv EXCEPT ![c] = Continue(s, VersionOrNull(version))]
         /\ queries' = queries

InitVersion ==
    /\ heap = [i \in MapIds |-> <<>>]
    /\ pc = "idle"
    /\ args = <<>>
    /\ commandArgs = <<>>
    /\ execOptions = Empty
    /\ launch = NoLaunch
    /\ child = NoChild
    /\ result = NoResult
    /\ first = [i \in MapIds |-> Unset]
    /\ method = ""
    /\ process = NoProcess
    /\ capture = NoCapture
    /\ version = Null
    /\ build = Null
    /\ getv = [c \in Callers |-> IdleCall]
    /\ queries = 0

\* A caller calls getVersion, satisfiesVersion(range) or requireVersion(range).
StartVersionCall(c, kind, range) ==
    /\ getv[c].pc = "idle"
    /\ EnterGetVersion(c, [IdleCall EXCEPT !.kind = kind, !.range = range])
    /\ UNCHANGED <<version, build, execVars, spawnVars>>

\* The exec a getVersion awaits settles, and getVersion runs to its return.
VersionExecDone(c, oc) ==
    /\ getv[c].pc = "awaiting"
    /\ LET eo == VersionExec.execOptions
           error == ChildError(eo, oc.launched, oc.code, oc.stdout)
           vb == AssignVersion([version |-> version, build |-> build],
                               ExecFileCallback(eo, error, oc.stdout, oc.stderr))
       IN  /\ version' = vb.version
           /\ build' = vb.build
           /\ getv' = [getv EXCEPT ![c] = Continue(getv[c], VersionOrNull(vb.version))]
    /\ UNCHANGED <<queries, execVars, spawnVars>>

\* requireVersion's second getVersion, for the message of its error.
RequireMessage(c) ==
    /\ getv[c].pc = "message"
    /\ EnterGetVersion(c, getv[c])
    /\ UNCHANGED <<version, build, execVars, spawnVars>>

NextVersion ==
    \/ \E c \in Callers, k \in Kinds, r \in Ranges : StartVersionCall(c, k, r)
    \/ \E c \in Callers, oc \in VersionOutcomes : VersionExecDone(c, oc)
    \/ \E c \in Callers : RequireMessage(c)

SpecVersion == InitVersion /\ [][NextVersion]_vars

(***************************************************************************)
(* The claims about exec.                                                   *)
(***************************************************************************)
\* The exec call has scanned its arguments and launched (or returned a handle).
Launched == pc \in {"pending", "handle"} /\ launch.kind # "none"

\* The argument values the claims speak of: strings, numbers and option maps.
Marshallable(a) == \A i \in 1..Len(a) : a[i].t \in {"str", "num", "ref"}

FlagOf(k) == {Str("-" \o k), Str("--" \o k)}

\* The scan reads the whole list: no element of it ends the loop early.
ReadToEnd(a) == \A i \in 1..Len(a) : Truthy(a[i])

\* C1: after any exec call no argument of the vector handed to the binary is
\* a flag built from a directive key, and every option map the call turned
\* into flags has lost all eight directive keys.  (Stated for the calls whose
\* scan reads every argument, so that a violation is the marshaller's own.)
C1_DirectivesNeverFlags ==
    (Launched /\ Marshallable(args) /\ ReadToEnd(args)) =>
        /\ \A i \in 1..Len(commandArgs) : \A k \in DirectiveKeys :
               commandArgs[i] \notin FlagOf(k)
        /\ \A i \in 1..Len(args) :
               args[i].t = "ref" => Keys(heap[args[i].id]) \cap DirectiveKeys = {}

\* An option map of the call carries a truthy $passthrough.
SelectsPassthrough(a, h) ==
    \E i \in 1..Len(a) :
        /\ a[i].t = "ref"
        /\ Has(h[a[i].id], "$passthrough")
        /\ Truthy(Get(h[a[i].id], "$passthrough"))

\* C2: an exec call one of whose option maps carries a truthy $passthrough is
\* executed with the spawn strategy, whatever else the call's maps carry and
\* in whatever order.  (Stated for the calls whose scan reads every argument.)
C2_PassthroughSpawns ==
    [][(pc = "idle" /\ pc' # "idle" /\ Marshallable(args') /\ ReadToEnd(args')
            /\ SelectsPassthrough(args', heap))
         => launch'.kind = "spawn"]_vars

AllSpace(cs) == \A i \in 1..Len(cs) : cs[i] \in Whitespace

\* r is s without its leading and trailing whitespace.
IsTrimOf(r, s) ==
    /\ r # <<>> => (r[1] \notin Whitespace /\ r[Len(r)] \notin Whitespace)
    /\ \E i \in 0..Len(s) : \E j \in i..Len(s) :
           /\ AllSpace(SubSeq(s, 1, i))
           /\ r = SubSeq(s, i + 1, j)
           /\ AllSpace(SubSeq(s, j + 1, Len(s)))

Captured == pc = "settled" /\ launch.kind \in {"execFile", "exec"}

\* C3: a direct or shell exec call settles in one of three ways: resolved
\* with the trimmed standard output when the child succeeded, resolved with
\* null when it failed and nullOnError is set, rejected with the error
\* carrying the captured standard error when it failed and nullOnError is
\* not set.
C3_CaptureOutcomes ==
    Captured =>
        IF child.error = Null
        THEN /\ result.state = "resolved"
             /\ result.value.t = "text"
             /\ IsTrimOf(result.value.c, child.stdout)
        ELSE IF Truthy(Opt(execOptions, "nullOnError"))
        THEN result = Resolved(Null)
        ELSE /\ result.state = "rejected"
             /\ result.value.t = "error"
             /\ result.value.code = child.error.code
             /\ result.value.stderr = Text(child.stderr)

\* A shell call whose child failed, with nullOnError set, resolved with null.
C3_Witness ==
    /\ Captured
    /\ launch.kind = "exec"
    /\ child.error # Null
    /\ Truthy(Opt(execOptions, "nullOnError"))
    /\ result = Resolved(Null)

\* What the claim expects of an argument list: the first string, then every
\* later string or number in its string form and every map's flags, in order.
RECURSIVE ExpectedArgs(_, _)
ExpectedArgs(a, h) ==
    IF a = <<>> THEN <<>>
    ELSE (IF Head(a).t = "ref" THEN Flags(h[Head(a).id])
          ELSE <<Str(ToString(Head(a)))>>) \o ExpectedArgs(Tail(a), h)

\* C7: for an argument list of strings, numbers and option maps that begins
\* with a string, the argument vector is that string followed by every later
\* string or number (in string form) and every map's flags, in encounter
\* order, none skipped.  (Stated for a non-empty first string.)
C7_PositionalsInOrder ==
    (Launched /\ Marshallable(args) /\ args # <<>> /\ args[1].t = "str"
        /\ Truthy(args[1])) =>
        commandArgs = ExpectedArgs(args, heap)

Consumed == DirectiveKeys \ {"$options"}

\* exec(m) is running, m alone, and not for the first time.
Reused(m) == Launched /\ args = <<Ref(m)>> /\ first[m].again

OptionsOf(m) == IF Has(m, "$options") THEN Get(m, "$options").o ELSE Empty

C6_MethodPrependsItsName ==
    \A i \in 1..Len(Subcommands) :
        (Launched /\ method = Concat(MethodName(Subcommands[i]))) =>
            /\ commandArgs # <<>>
            /\ commandArgs[1] = Str(Concat(Subcommands[i]))

RECURSIVE Flatten(_)
Flatten(chunks) == IF chunks = <<>> THEN <<>> ELSE Head(chunks) \o Flatten(Tail(chunks))

Count(seq, x) == Cardinality({i \in 1..Len(seq) : seq[i] = x})

\* C4: every captureOutput call returns the promise of the first call, the
\* capture listeners are attached once, and the child's standard input is
\* written (and closed) at most once however many calls are made.
C4_CaptureOnce ==
    /\ \A i \in 1..Len(capture.returned) : capture.returned[i] = capture.returned[1]
    /\ Count(process.dataListeners, "capture") <= 1
    /\ Count(process.exitListeners, "capture") <= 1
    /\ process.stdin.attempts <= 1

\* C8: once the child has exited, the promise of the first captureOutput
\* call is settled, whenever that call was made: resolved with all the text
\* the child wrote when the exit code is 0, rejected with the output so far
\* and the exit code otherwise.
C8_CaptureSettles ==
    (process.status = "exited" /\ capture.promise.state # "none") =>
        IF process.code = 0
        THEN /\ capture.promise.state = "resolved"
             /\ capture.promise.value = Text(Flatten(process.written))
        ELSE /\ capture.promise.state = "rejected"
             /\ capture.promise.value.output = Text(capture.output)
             /\ capture.promise.value.code = process.code

\* C5: once a getVersion call has completed (this.version is no longer
\* null), the binary is not invoked again and the cached version and build,
\* or the sentinel, stay what they are.
C5_CachedForLife ==
    [][version # Null =>
          /\ queries' = queries
          /\ version' = version
          /\ build' = build]_vars

\* C9: under any interleaving the binary is queried at most once, a cached
\* version string is never replaced, and build is set only while version is
\* a parsed version string.
C9_SingleQuery ==
    [][/\ queries' <= 1
       /\ version.t = "text" => version' = version
       /\ build' # Null => version'.t = "text"]_vars
====
